---- MODULE Spec2Model ----
(***************************************************************************)
(* Model of the nucleobases crate (src/src/lib.rs).                        *)
(*                                                                         *)
(* The crate is one enum, Nucleobase, with pure methods and conversions.   *)
(* A behaviour of the model is one call into the crate: the caller picks   *)
(* an operation and its arguments, the operation runs, and the call and    *)
(* its result are recorded in `last`.  Display::fmt is modelled as a call  *)
(* sequence, one step per stack frame, because it calls itself.            *)
(*                                                                         *)
(* A char is its Unicode scalar value, a str is its sequence of UTF-8      *)
(* bytes, a Nucleobase is the name of its variant.                         *)
(***************************************************************************)
EXTENDS Integers, Sequences, FiniteSets

VARIABLES
    pc,      \* "ready" | "returned" | "fmt" | "aborted"
    last,    \* the call made: [op, arg, ret]
    depth,   \* number of Display::fmt frames on the stack
    out      \* the bytes written to the Formatter

vars == <<pc, last, depth, out>>

-----------------------------------------------------------------------------
(* Bounds *)

\* longest input string, in characters
MaxLen == 2

\* number of Display::fmt frames the stack holds before it overflows
StackFrames == 4

-----------------------------------------------------------------------------
(* Types *)

Nucleobase == {"Adenine", "Cytosine", "Guanine", "Thymine", "Uracil"}

\* Sample of char values: the ten accepted letters, other ASCII letters and
\* symbols, the last 1-byte char, and chars of 2, 3 and 4 UTF-8 bytes
\* (U+0080, U+00E9, U+07FF, U+0800, U+2EC7, U+FFFD, U+10000, U+1F600).
Chars ==
    {65, 67, 71, 84, 85, 97, 99, 103, 116, 117}
        \cup {78, 110, 66, 100, 48, 32, 127}
        \cup {128, 233, 2047, 2048, 11975, 65533, 65536, 128512}

Ok(b) == [ok |-> TRUE, base |-> b]

InvalidCharacterError(c) == [ok |-> FALSE, err |-> "InvalidCharacterError", ch |-> c]

StringLengthError == [ok |-> FALSE, err |-> "StringLengthError"]

\* the call does not return: the thread panics
Panic == [ok |-> FALSE, err |-> "panic"]

\* Option<char>
None == [some |-> FALSE]

Some(c) == [some |-> TRUE, val |-> c]

-----------------------------------------------------------------------------
(* str primitives used by the crate *)

\* UTF-8 encoding of one char
encode_utf8(c) ==
    IF c < 128 THEN <<c>>
    ELSE IF c < 2048 THEN <<192 + (c \div 64), 128 + (c % 64)>>
    ELSE IF c < 65536 THEN
        <<224 + (c \div 4096), 128 + ((c \div 64) % 64), 128 + (c % 64)>>
    ELSE
        <<240 + (c \div 262144), 128 + ((c \div 4096) % 64),
          128 + ((c \div 64) % 64), 128 + (c % 64)>>

\* the str holding the chars cs
RECURSIVE str_of(_)
str_of(cs) ==
    IF cs = <<>> THEN <<>> ELSE encode_utf8(Head(cs)) \o str_of(Tail(cs))

\* s.len(): the length in bytes
str_len(s) == Len(s)

\* s.chars().count(): the bytes that start a char
chars_count(s) ==
    Cardinality({i \in 1..Len(s) : ~(s[i] >= 128 /\ s[i] < 192)})

\* s.chars().next(): decode the first char, None when s is empty
chars_next(s) ==
    IF s = <<>> THEN None
    ELSE IF s[1] < 128 THEN Some(s[1])
    ELSE IF s[1] < 224 THEN Some((s[1] - 192) * 64 + (s[2] - 128))
    ELSE IF s[1] < 240 THEN
        Some((s[1] - 224) * 4096 + (s[2] - 128) * 64 + (s[3] - 128))
    ELSE
        Some((s[1] - 240) * 262144 + (s[2] - 128) * 4096
                + (s[3] - 128) * 64 + (s[4] - 128))

\* s.is_char_boundary(i): 0, s.len(), or the index of a byte that starts a
\* char
is_char_boundary(s, i) ==
    \/ i = 0
    \/ i = Len(s)
    \/ i < Len(s) /\ ~(s[i + 1] >= 128 /\ s[i + 1] < 192)

\* &s[a..b] panics unless a <= b <= s.len() and both are char boundaries
slice_ok(s, a, b) ==
    a <= b /\ b <= Len(s) /\ is_char_boundary(s, a) /\ is_char_boundary(s, b)

\* &s[a..b]: the bytes a..b-1 (0-based)
str_slice(s, a, b) == SubSeq(s, a + 1, b)

-----------------------------------------------------------------------------
(* impl Nucleobase *)

is_purine(self) ==
    CASE self \in {"Adenine", "Guanine"} -> TRUE
      [] self \in {"Cytosine", "Thymine", "Uracil"} -> FALSE

is_pyrimidine(self) ==
    CASE self \in {"Adenine", "Guanine"} -> FALSE
      [] self \in {"Cytosine", "Thymine", "Uracil"} -> TRUE

is_amine(self) ==
    CASE self \in {"Adenine", "Cytosine"} -> TRUE
      [] self \in {"Guanine", "Thymine", "Uracil"} -> FALSE

\* is_ketone with Guanine listed in the wrong arm
is_ketone_guanine_amine(self) ==
    CASE self \in {"Adenine", "Cytosine", "Guanine"} -> FALSE
      [] self \in {"Thymine", "Uracil"} -> TRUE

is_ketone(self) ==
    CASE self \in {"Adenine", "Cytosine"} -> FALSE
      [] self \in {"Guanine", "Thymine", "Uracil"} -> TRUE

\* is_ribonucleotide_base with the arms of is_deoxyribonucleotide_base
is_ribonucleotide_base_as_deoxy(self) ==
    CASE self \in {"Adenine", "Cytosine", "Guanine", "Thymine"} -> TRUE
      [] self = "Uracil" -> FALSE

is_ribonucleotide_base(self) ==
    CASE self \in {"Adenine", "Cytosine", "Guanine", "Uracil"} -> TRUE
      [] self = "Thymine" -> FALSE

is_rna_base(self) == is_ribonucleotide_base(self)

\* is_deoxyribonucleotide_base that accepts Uracil
is_deoxyribonucleotide_base_any(self) ==
    CASE self \in {"Adenine", "Cytosine", "Guanine", "Thymine"} -> TRUE
      [] self = "Uracil" -> TRUE

is_deoxyribonucleotide_base(self) ==
    CASE self \in {"Adenine", "Cytosine", "Guanine", "Thymine"} -> TRUE
      [] self = "Uracil" -> FALSE

is_dna_base(self) == is_deoxyribonucleotide_base(self)

\* are_complementary with || for &&
are_complementary_or(one, two) ==
    (is_purine(one) # is_purine(two)) \/ (is_amine(one) # is_amine(two))

are_complementary(one, two) ==
    (is_purine(one) # is_purine(two)) /\ (is_amine(one) # is_amine(two))

is_complementary_to(self, other) == are_complementary(self, other)

\* to_deoxyribonucleotide_complement sending Uracil to Thymine
to_deoxyribonucleotide_complement_uracil(self) ==
    CASE self = "Adenine" -> "Thymine"
      [] self = "Cytosine" -> "Guanine"
      [] self = "Guanine" -> "Cytosine"
      [] self = "Thymine" -> "Adenine"
      [] self = "Uracil" -> "Thymine"

to_deoxyribonucleotide_complement(self) ==
    CASE self = "Adenine" -> "Thymine"
      [] self = "Cytosine" -> "Guanine"
      [] self = "Guanine" -> "Cytosine"
      [] self = "Thymine" -> "Adenine"
      [] self = "Uracil" -> "Adenine"

to_dna_complement(self) == to_deoxyribonucleotide_complement(self)

\* to_ribonucleotide_complement pairing Adenine with Uracil
to_ribonucleotide_complement_rna(self) ==
    CASE self = "Adenine" -> "Uracil"
      [] self = "Cytosine" -> "Guanine"
      [] self = "Guanine" -> "Cytosine"
      [] self = "Thymine" -> "Adenine"
      [] self = "Uracil" -> "Adenine"

to_ribonucleotide_complement(self) ==
    CASE self = "Adenine" -> "Thymine"
      [] self = "Cytosine" -> "Guanine"
      [] self = "Guanine" -> "Cytosine"
      [] self = "Thymine" -> "Adenine"
      [] self = "Uracil" -> "Adenine"

to_rna_complement(self) == to_ribonucleotide_complement(self)

-----------------------------------------------------------------------------
(* Conversions *)

\* try_from without the lowercase arm of Uracil
try_from_no_lower_u(c) ==
    CASE c \in {65, 97} -> Ok("Adenine")
      [] c \in {67, 99} -> Ok("Cytosine")
      [] c \in {71, 103} -> Ok("Guanine")
      [] c \in {84, 116} -> Ok("Thymine")
      [] c \in {85} -> Ok("Uracil")
      [] OTHER -> InvalidCharacterError(c)

\* impl TryFrom<char> for Nucleobase
try_from(c) ==
    CASE c \in {65, 97} -> Ok("Adenine")
      [] c \in {67, 99} -> Ok("Cytosine")
      [] c \in {71, 103} -> Ok("Guanine")
      [] c \in {84, 116} -> Ok("Thymine")
      [] c \in {85, 117} -> Ok("Uracil")
      [] OTHER -> InvalidCharacterError(c)

\* from_str that decides by s.len() alone
from_str_byte_len(s) ==
    IF str_len(s) = 1 THEN
        IF ~slice_ok(s, 0, 1) THEN Panic
        ELSE
            LET m == str_slice(s, 0, 1) IN
            CASE m \in {<<65>>, <<97>>} -> Ok("Adenine")
              [] m \in {<<67>>, <<99>>} -> Ok("Cytosine")
              [] m \in {<<71>>, <<103>>} -> Ok("Guanine")
              [] m \in {<<84>>, <<116>>} -> Ok("Thymine")
              [] m \in {<<85>>, <<117>>} -> Ok("Uracil")
              [] OTHER ->
                    LET c == chars_next(m) IN
                    IF c.some THEN InvalidCharacterError(c.val) ELSE Panic
    ELSE
        StringLengthError

\* impl FromStr for Nucleobase
from_str(s) ==
    IF str_len(s) = 1 THEN
        IF ~slice_ok(s, 0, 1) THEN Panic
        ELSE
            LET m == str_slice(s, 0, 1) IN
            CASE m \in {<<65>>, <<97>>} -> Ok("Adenine")
              [] m \in {<<67>>, <<99>>} -> Ok("Cytosine")
              [] m \in {<<71>>, <<103>>} -> Ok("Guanine")
              [] m \in {<<84>>, <<116>>} -> Ok("Thymine")
              [] m \in {<<85>>, <<117>>} -> Ok("Uracil")
              [] OTHER ->
                    LET c == chars_next(m) IN
                    IF c.some THEN InvalidCharacterError(c.val) ELSE Panic
    ELSE
        IF chars_count(s) = 1 THEN
            LET c == chars_next(s) IN
            IF c.some THEN InvalidCharacterError(c.val) ELSE Panic
        ELSE StringLengthError

\* as_ref with the letter of Thymine for Uracil
as_ref_char_uracil_t(self) ==
    CASE self = "Adenine" -> 65
      [] self = "Cytosine" -> 67
      [] self = "Guanine" -> 71
      [] self = "Thymine" -> 84
      [] self = "Uracil" -> 84

\* impl AsRef<char> for Nucleobase
as_ref_char(self) ==
    CASE self = "Adenine" -> 65
      [] self = "Cytosine" -> 67
      [] self = "Guanine" -> 71
      [] self = "Thymine" -> 84
      [] self = "Uracil" -> 85

\* impl Into<char> for Nucleobase
into(self) == as_ref_char(self)

\* impl AsRef<str> for Nucleobase
as_ref_str(self) ==
    CASE self = "Adenine" -> <<65>>
      [] self = "Cytosine" -> <<67>>
      [] self = "Guanine" -> <<71>>
      [] self = "Thymine" -> <<84>>
      [] self = "Uracil" -> <<85>>

-----------------------------------------------------------------------------
(* The calls *)

Call(o, a, r) == [op |-> o, arg |-> a, ret |-> r]

\* input strings: up to MaxLen chars
CharSeqs == UNION {[1..n -> Chars] : n \in 0..MaxLen}

Init ==
    /\ pc = "ready"
    /\ last = Call("none", <<>>, <<>>)
    /\ depth = 0
    /\ out = <<>>

\* a call of a method that returns at once
Return(o, a, r) ==
    /\ pc = "ready"
    /\ pc' = "returned"
    /\ last' = Call(o, a, r)
    /\ UNCHANGED <<depth, out>>

call_is_purine == \E x \in Nucleobase : Return("is_purine", <<x>>, is_purine(x))

call_is_pyrimidine ==
    \E x \in Nucleobase : Return("is_pyrimidine", <<x>>, is_pyrimidine(x))

call_is_amine == \E x \in Nucleobase : Return("is_amine", <<x>>, is_amine(x))

call_is_ketone == \E x \in Nucleobase : Return("is_ketone", <<x>>, is_ketone(x))

call_is_ribonucleotide_base ==
    \E x \in Nucleobase :
        Return("is_ribonucleotide_base", <<x>>, is_ribonucleotide_base(x))

call_is_rna_base ==
    \E x \in Nucleobase : Return("is_rna_base", <<x>>, is_rna_base(x))

call_is_deoxyribonucleotide_base ==
    \E x \in Nucleobase :
        Return("is_deoxyribonucleotide_base", <<x>>,
               is_deoxyribonucleotide_base(x))

call_is_dna_base ==
    \E x \in Nucleobase : Return("is_dna_base", <<x>>, is_dna_base(x))

call_are_complementary ==
    \E x \in Nucleobase, y \in Nucleobase :
        Return("are_complementary", <<x, y>>, are_complementary(x, y))

call_is_complementary_to ==
    \E x \in Nucleobase, y \in Nucleobase :
        Return("is_complementary_to", <<x, y>>, is_complementary_to(x, y))

call_to_deoxyribonucleotide_complement ==
    \E x \in Nucleobase :
        Return("to_deoxyribonucleotide_complement", <<x>>,
               to_deoxyribonucleotide_complement(x))

call_to_dna_complement ==
    \E x \in Nucleobase :
        Return("to_dna_complement", <<x>>, to_dna_complement(x))

call_to_ribonucleotide_complement ==
    \E x \in Nucleobase :
        Return("to_ribonucleotide_complement", <<x>>,
               to_ribonucleotide_complement(x))

call_to_rna_complement ==
    \E x \in Nucleobase :
        Return("to_rna_complement", <<x>>, to_rna_complement(x))

call_try_from == \E c \in Chars : Return("try_from", <<c>>, try_from(c))

\* the argument is recorded as the chars the str was built from
call_from_str ==
    \E cs \in CharSeqs : Return("from_str", cs, from_str(str_of(cs)))

call_into == \E x \in Nucleobase : Return("into", <<x>>, into(x))

call_as_ref_char ==
    \E x \in Nucleobase : Return("as_ref_char", <<x>>, as_ref_char(x))

call_as_ref_str ==
    \E x \in Nucleobase : Return("as_ref_str", <<x>>, as_ref_str(x))

-----------------------------------------------------------------------------
(* impl Display for Nucleobase *)

\* Display::fmt is entered (by to_string, format!, println!, ...)
fmt ==
    /\ pc = "ready"
    /\ \E x \in Nucleobase : last' = Call("fmt", <<x>>, <<>>)
    /\ pc' = "fmt"
    /\ depth' = 1
    /\ UNCHANGED out

\* write!(f, "{}", self): self is a &Nucleobase, so "{}" formats it with
\* <&Nucleobase as Display>::fmt, which calls <Nucleobase as Display>::fmt
\* on the same value: a new frame of the same function.  No coercion to
\* str takes place, and nothing is written to f before the call.
fmt_write ==
    /\ pc = "fmt"
    /\ depth < StackFrames
    /\ depth' = depth + 1
    /\ UNCHANGED <<pc, last, out>>

\* The recursion has no base case and no frame ever returns, so the stack,
\* which is finite whatever its size, runs out: the guard page is hit and
\* the process is aborted.  No step follows.  (A build that reuses the frame
\* for the call loops without end instead; in neither does fmt return.)
fmt_stack_overflow ==
    /\ pc = "fmt"
    /\ depth = StackFrames
    /\ pc' = "aborted"
    /\ UNCHANGED <<last, depth, out>>

-----------------------------------------------------------------------------

Next ==
    \/ call_is_purine
    \/ call_is_pyrimidine
    \/ call_is_amine
    \/ call_is_ketone
    \/ call_is_ribonucleotide_base
    \/ call_is_rna_base
    \/ call_is_deoxyribonucleotide_base
    \/ call_is_dna_base
    \/ call_are_complementary
    \/ call_is_complementary_to
    \/ call_to_deoxyribonucleotide_complement
    \/ call_to_dna_complement
    \/ call_to_ribonucleotide_complement
    \/ call_to_rna_complement
    \/ call_try_from
    \/ call_from_str
    \/ call_into
    \/ call_as_ref_char
    \/ call_as_ref_str
    \/ fmt
    \/ fmt_write
    \/ fmt_stack_overflow

Spec == Init /\ [][Next]_vars

\* a call that has started keeps running: the frames of Display::fmt are
\* steps of one thread
FairSpec == Spec /\ WF_vars(fmt_write) /\ WF_vars(fmt_stack_overflow)

-----------------------------------------------------------------------------

TypeOK ==
    /\ pc \in {"ready", "returned", "fmt", "aborted"}
    /\ depth \in 0..StackFrames
    /\ out = <<>> \/ out \in {as_ref_str(x) : x \in Nucleobase}

-----------------------------------------------------------------------------
(* Properties *)

\* the call recorded in `last` is a returned call of op
Called(op) == pc = "returned" /\ last.op = op

\* the ten characters TryFrom<char> accepts
Accepted == {65, 67, 71, 84, 85, 97, 99, 103, 116, 117}

\* the uppercase form of an ASCII letter, any other char unchanged
Upper(c) == IF c >= 97 /\ c <= 122 THEN c - 32 ELSE c

\* C1: the letter code of a Nucleobase (Into<char>, AsRef<char>) converts
\* back to that Nucleobase with TryFrom<char>, is one of the uppercase
\* characters A, C, G, T, U, and is the code of no other Nucleobase.
LetterCodeRoundTrip ==
    (Called("into") \/ Called("as_ref_char")) =>
        LET x == last.arg[1] IN
        /\ try_from(last.ret) = Ok(x)
        /\ last.ret \in {65, 67, 71, 84, 85}
        /\ \A y \in Nucleobase \ {x} :
                into(y) # last.ret /\ as_ref_char(y) # last.ret

LetterCodeRoundTripWitness ==
    pc = "returned" /\ last = Call("into", <<"Uracil">>, 85)

\* C2: TryFrom<char> succeeds for exactly the ten characters
\* A,C,G,T,U,a,c,g,t,u; the lowercase and the uppercase character give the
\* same Nucleobase, the one whose letter code is the uppercase character;
\* every other character c fails with InvalidCharacterError(c).
TryFromCharCaseInsensitive ==
    Called("try_from") =>
        LET c == last.arg[1] IN
        /\ last.ret.ok <=> c \in Accepted
        /\ last.ret.ok =>
            /\ as_ref_char(last.ret.base) = Upper(c)
            /\ try_from(Upper(c)) = last.ret
            /\ try_from(Upper(c) + 32) = last.ret
        /\ ~last.ret.ok => last.ret = InvalidCharacterError(c)

TryFromCharCaseInsensitiveWitness ==
    pc = "returned" /\ last = Call("try_from", <<117>>, Ok("Uracil"))

\* C3: from_str decides by the number of characters, not bytes: a string of
\* zero or of two or more characters gives StringLengthError, a string of
\* exactly one character c, of any UTF-8 width, gives what TryFrom<char>
\* gives for c; no input makes from_str panic.
FromStrByCharCount ==
    Called("from_str") =>
        LET cs == last.arg IN
        /\ last.ret # Panic
        /\ Len(cs) # 1 => last.ret = StringLengthError
        /\ Len(cs) = 1 => last.ret = try_from(cs[1])

FromStrByCharCountWitness ==
    /\ pc = "returned"
    /\ last = Call("from_str", <<11975>>, InvalidCharacterError(11975))
    /\ str_len(str_of(last.arg)) = 3

\* the pairs the chart of the crate calls complementary
ComplementaryPairs ==
    {{"Adenine", "Thymine"}, {"Adenine", "Uracil"}, {"Cytosine", "Guanine"}}

\* C4: are_complementary(x, y) is true iff x and y differ in is_purine and
\* in is_amine, which is exactly for the pairs {Adenine, Thymine},
\* {Adenine, Uracil} and {Cytosine, Guanine}; it is symmetric, and
\* is_complementary_to returns the same result.
AreComplementaryPairs ==
    (Called("are_complementary") \/ Called("is_complementary_to")) =>
        LET x == last.arg[1]
            y == last.arg[2]
        IN  /\ last.ret = (is_purine(x) # is_purine(y) /\ is_amine(x) # is_amine(y))
            /\ last.ret = ({x, y} \in ComplementaryPairs)
            /\ last.ret = are_complementary(y, x)
            /\ last.ret = is_complementary_to(x, y)
            /\ last.ret = is_complementary_to(y, x)

AreComplementaryPairsWitness ==
    pc = "returned" /\ last = Call("are_complementary", <<"Uracil", "Adenine">>, TRUE)

\* C5: is_purine is true exactly for Adenine and Guanine and is the negation
\* of is_pyrimidine; is_amine is true exactly for Adenine and Cytosine and is
\* the negation of is_ketone; for every variant.
ClassificationsPartition ==
    /\ Called("is_purine") =>
        /\ last.ret = (last.arg[1] \in {"Adenine", "Guanine"})
        /\ last.ret = ~is_pyrimidine(last.arg[1])
    /\ Called("is_pyrimidine") =>
        /\ last.ret = (last.arg[1] \notin {"Adenine", "Guanine"})
        /\ last.ret = ~is_purine(last.arg[1])
    /\ Called("is_amine") =>
        /\ last.ret = (last.arg[1] \in {"Adenine", "Cytosine"})
        /\ last.ret = ~is_ketone(last.arg[1])
    /\ Called("is_ketone") =>
        /\ last.ret = (last.arg[1] \notin {"Adenine", "Cytosine"})
        /\ last.ret = ~is_amine(last.arg[1])

ClassificationsPartitionWitness ==
    pc = "returned" /\ last = Call("is_ketone", <<"Guanine">>, TRUE)

\* C6: is_ribonucleotide_base is false only for Thymine and
\* is_deoxyribonucleotide_base is false only for Uracil, so every Nucleobase
\* satisfies at least one and the two differ exactly on Thymine and Uracil;
\* is_rna_base and is_dna_base return what the predicate they alias returns.
RnaDnaMembership ==
    /\ (Called("is_ribonucleotide_base") \/ Called("is_rna_base")) =>
        LET x == last.arg[1] IN
        /\ last.ret = (x # "Thymine")
        /\ last.ret = is_ribonucleotide_base(x)
        /\ last.ret = is_rna_base(x)
        /\ last.ret \/ is_deoxyribonucleotide_base(x)
        /\ (last.ret # is_deoxyribonucleotide_base(x)) = (x \in {"Thymine", "Uracil"})
    /\ (Called("is_deoxyribonucleotide_base") \/ Called("is_dna_base")) =>
        LET x == last.arg[1] IN
        /\ last.ret = (x # "Uracil")
        /\ last.ret = is_deoxyribonucleotide_base(x)
        /\ last.ret = is_dna_base(x)
        /\ last.ret \/ is_ribonucleotide_base(x)
        /\ (last.ret # is_ribonucleotide_base(x)) = (x \in {"Thymine", "Uracil"})

RnaDnaMembershipWitness ==
    pc = "returned" /\ last = Call("is_rna_base", <<"Thymine">>, FALSE)

\* the complement table of the documentation
ComplementTable ==
    [x \in Nucleobase |->
        CASE x = "Adenine" -> "Thymine"
          [] x = "Thymine" -> "Adenine"
          [] x = "Cytosine" -> "Guanine"
          [] x = "Guanine" -> "Cytosine"
          [] x = "Uracil" -> "Adenine"]

DisplayFmtReturns ==
    (pc = "fmt") ~>
        (pc = "returned" /\ last.op = "fmt" /\ out = as_ref_str(last.arg[1]))

\* the three binary properties, with the DNA and with the RNA predicate
TripleDeoxy(x) == <<is_purine(x), is_amine(x), is_deoxyribonucleotide_base(x)>>

TripleRibo(x) == <<is_purine(x), is_amine(x), is_ribonucleotide_base(x)>>

\* C9: the triple (is_purine, is_amine, is_deoxyribonucleotide_base), and
\* likewise the triple with is_ribonucleotide_base, differs for any two
\* distinct Nucleobase values; purine+ketone is only Guanine, purine+amine
\* only Adenine, pyrimidine+amine only Cytosine, pyrimidine+ketone only
\* Thymine or Uracil, which the third predicate tells apart.
BinaryPropertiesIdentify ==
    (\/ Called("is_purine") \/ Called("is_pyrimidine")
     \/ Called("is_amine") \/ Called("is_ketone")
     \/ Called("is_deoxyribonucleotide_base")
     \/ Called("is_ribonucleotide_base")) =>
        LET x == last.arg[1] IN
        /\ \A y \in Nucleobase \ {x} :
                TripleDeoxy(y) # TripleDeoxy(x) /\ TripleRibo(y) # TripleRibo(x)
        /\ is_purine(x) /\ is_ketone(x) => x = "Guanine"
        /\ is_purine(x) /\ is_amine(x) => x = "Adenine"
        /\ is_pyrimidine(x) /\ is_amine(x) => x = "Cytosine"
        /\ is_pyrimidine(x) /\ is_ketone(x) =>
            /\ x \in {"Thymine", "Uracil"}
            /\ is_deoxyribonucleotide_base(x) = (x = "Thymine")
            /\ is_ribonucleotide_base(x) = (x = "Uracil")

BinaryPropertiesIdentifyWitness ==
    pc = "returned" /\ last = Call("is_deoxyribonucleotide_base", <<"Uracil">>, FALSE)

\* C10: the Nucleobase a complement function returns is complementary, by
\* are_complementary, to the Nucleobase it was given.
ComplementIsComplementary ==
    (\/ Called("to_deoxyribonucleotide_complement")
     \/ Called("to_ribonucleotide_complement")) =>
        /\ are_complementary(last.arg[1], last.ret)
        /\ is_complementary_to(last.ret, last.arg[1])

ComplementIsComplementaryWitness ==
    /\ pc = "returned"
    /\ last = Call("to_deoxyribonucleotide_complement", <<"Uracil">>, "Adenine")

\* C11: each complement conversion returns a base of the nucleic acid it is
\* documented for: the result of to_deoxyribonucleotide_complement satisfies
\* is_deoxyribonucleotide_base, and the result of
\* to_ribonucleotide_complement satisfies is_ribonucleotide_base.
ComplementInItsNucleicAcid ==
    /\ Called("to_deoxyribonucleotide_complement") =>
        is_deoxyribonucleotide_base(last.ret)
    /\ Called("to_ribonucleotide_complement") =>
        is_ribonucleotide_base(last.ret)

====
